---- MODULE Spec2Model ----
(***************************************************************************)
(* Model of the v-ssr-gen command line tool (src/src/index.js).            *)
(*                                                                         *)
(* A string is a sequence of one-character strings, a path is a record of  *)
(* the absolute sequence of its segments and whether it ends in a slash.   *)
(* One run of the process is one behaviour: Init fixes the argument vector *)
(* and the disk found at start, the actions are the statements of main and *)
(* of ComponentGenerator.create in program order.                          *)
(***************************************************************************)
EXTENDS Integers, Sequences, FiniteSets, TLC

VARIABLES argv, dirs, files, pc, componentName, language, validation,
          generator, dir, fileIdx, out, exitCode, created, dirs0, files0

vars == <<argv, dirs, files, pc, componentName, language, validation,
          generator, dir, fileIdx, out, exitCode, created, dirs0, files0>>

-----------------------------------------------------------------------------
(* Bounds of the model.                                                    *)

\* longest argument vector drawn in Spec
MaxArgs == 4
\* longest component name drawn in SpecNames
MaxLen == 4
\* longest argument vector of FairSpec drawn from all the tokens
MaxFairArgs == 2

-----------------------------------------------------------------------------
(* Characters and strings.                                                 *)

LowerLetters ==
    <<"a","b","c","d","e","f","g","h","i","j","k","l","m",
      "n","o","p","q","r","s","t","u","v","w","x","y","z">>

UpperLetters ==
    <<"A","B","C","D","E","F","G","H","I","J","K","L","M",
      "N","O","P","Q","R","S","T","U","V","W","X","Y","Z">>

Digits == {"0","1","2","3","4","5","6","7","8","9"}

Range(s) == {s[i] : i \in DOMAIN s}

LowerSet == Range(LowerLetters)
UpperSet == Range(UpperLetters)

\* [a-z]
IsLower(c) == c \in LowerSet

\* [A-Z]
IsUpper(c) == c \in UpperSet

\* [a-zA-Z0-9]
IsAlnum(c) == IsLower(c) \/ IsUpper(c) \/ c \in Digits

\* [-_\s]
IsSep(c) == c \in {"-", "_", " "}

IndexIn(c, s) == CHOOSE i \in DOMAIN s : s[i] = c

toUpperCaseChar(c) ==
    IF IsLower(c) THEN UpperLetters[IndexIn(c, LowerLetters)] ELSE c

toLowerCaseChar(c) ==
    IF IsUpper(c) THEN LowerLetters[IndexIn(c, UpperLetters)] ELSE c

\* String.prototype.toLowerCase
toLowerCase(s) == [i \in DOMAIN s |-> toLowerCaseChar(s[i])]

\* an optional value: undefined, or a defined value
Undefined == <<>>
Some(v) == <<v>>
IsDefined(o) == o # Undefined
ValueOf(o) == o[1]

-----------------------------------------------------------------------------
(* ComponentName.                                                          *)

\* /^[a-z][a-zA-Z0-9]*$/.test(name)
IsCamelCase(name) ==
    /\ Len(name) >= 1
    /\ IsLower(name[1])
    /\ \A i \in 2..Len(name) : IsAlnum(name[i])

RECURSIVE DropSeps(_)
\* the rest of s after its leading run of separators, [-_\s]+
DropSeps(s) ==
    IF s # <<>> /\ IsSep(Head(s)) THEN DropSeps(Tail(s)) ELSE s

RECURSIVE ReplaceSepRuns(_)
\* str.replace(/[-_\s]+(.)?/g, (_, c) => c ? c.toUpperCase() : '')
ReplaceSepRuns(s) ==
    IF s = <<>> THEN <<>>
    ELSE IF IsSep(Head(s))
         THEN LET rest == DropSeps(s)
              IN  IF rest = <<>> THEN <<>>
                  ELSE <<toUpperCaseChar(Head(rest))>> \o ReplaceSepRuns(Tail(rest))
         ELSE <<Head(s)>> \o ReplaceSepRuns(Tail(s))

\* str.replace(/^([A-Z])/, c => c.toLowerCase())
LowerFirst(s) ==
    IF s # <<>> /\ IsUpper(Head(s))
    THEN <<toLowerCaseChar(Head(s))>> \o Tail(s)
    ELSE s

\* the leading capital kept
convertToCamelCaseNoLower(str) == ReplaceSepRuns(str)

convertToCamelCase(str) == LowerFirst(ReplaceSepRuns(str))

RECURSIVE InsertDashes(_)
\* str.replace(/([a-z])([A-Z])/g, '$1-$2')
InsertDashes(s) ==
    IF Len(s) >= 2 /\ IsLower(s[1]) /\ IsUpper(s[2])
    THEN <<s[1], "-", s[2]>> \o InsertDashes(SubSeq(s, 3, Len(s)))
    ELSE IF s = <<>> THEN <<>>
    ELSE <<Head(s)>> \o InsertDashes(Tail(s))

toDashCase(str) == toLowerCase(InsertDashes(str))

MsgRequired == "Component name is required"
MsgCamelCase == "Component name must be camelCase"

\* the truthiness of a string
Truthy(s) == s # <<>>

\* no suggestion computed
validateNoSuggestion(name) ==
    IF ~Truthy(name)
    THEN [valid |-> FALSE, message |-> MsgRequired, suggestion |-> Undefined,
          value |-> Undefined]
    ELSE IF ~IsCamelCase(name)
    THEN [valid |-> FALSE, message |-> MsgCamelCase,
          suggestion |-> Undefined, value |-> Undefined]
    ELSE [valid |-> TRUE, message |-> "", suggestion |-> Undefined,
          value |-> Some(name)]

validate(name) ==
    IF ~Truthy(name)
    THEN [valid |-> FALSE, message |-> MsgRequired, suggestion |-> Undefined,
          value |-> Undefined]
    ELSE IF ~IsCamelCase(name)
    THEN [valid |-> FALSE, message |-> MsgCamelCase,
          suggestion |-> Some(convertToCamelCase(name)), value |-> Undefined]
    ELSE [valid |-> TRUE, message |-> "", suggestion |-> Undefined,
          value |-> Some(name)]

-----------------------------------------------------------------------------
(* Paths and the disk.                                                     *)

Last(s) == s[Len(s)]
Front(s) == SubSeq(s, 1, Len(s) - 1)

RECURSIVE SplitAcc(_, _)
\* str.split('/'), the segment being read kept in cur
SplitAcc(s, cur) ==
    IF s = <<>> THEN <<cur>>
    ELSE IF Head(s) = "/" THEN <<cur>> \o SplitAcc(Tail(s), <<>>)
    ELSE SplitAcc(Tail(s), Append(cur, Head(s)))

Split(s) == SplitAcc(s, <<>>)

Dot == <<".">>
DotDot == <<".", ".">>

RECURSIVE NormalizeOnto(_, _)
\* path.normalize of an absolute path: base followed by the segments segs
NormalizeOnto(base, segs) ==
    IF segs = <<>> THEN base
    ELSE LET g == Head(segs)
         IN  IF g = <<>> \/ g = Dot THEN NormalizeOnto(base, Tail(segs))
             ELSE IF g = DotDot
             THEN NormalizeOnto(IF base = <<>> THEN base ELSE Front(base), Tail(segs))
             ELSE NormalizeOnto(Append(base, g), Tail(segs))

\* path.join(p, str) for an absolute path p
PathJoin(p, str) ==
    IF str = <<>> THEN p
    ELSE [segs |-> NormalizeOnto(p.segs, Split(str)), trail |-> Last(str) = "/"]

\* process.cwd()
Cwd == [segs |-> << <<"p">>, <<"w">> >>, trail |-> FALSE]

IsPrefix(a, b) == Len(a) <= Len(b) /\ SubSeq(b, 1, Len(a)) = a

Parent(segs) == Front(segs)

\* fs.existsSync(p): a path ending in a slash names a directory only
\* the check lost
existsSyncNever(d, f, p) == FALSE

existsSync(d, f, p) ==
    \/ p.segs \in d
    \/ p.segs \in DOMAIN f /\ ~p.trail

\* the error fs.mkdirSync(p) throws on disk (d, f), "" when it succeeds
mkdirError(d, f, p) ==
    IF p.segs \in d \/ p.segs \in DOMAIN f THEN "EEXIST"
    ELSE IF Parent(p.segs) \in DOMAIN f THEN "ENOTDIR"
    ELSE IF Parent(p.segs) \notin d THEN "ENOENT"
    ELSE ""

\* the error fs.writeFileSync(p, ...) throws on disk (d, f), "" when it succeeds
writeError(d, f, p) ==
    IF p.segs \in d THEN "EISDIR"
    ELSE IF Parent(p.segs) \in DOMAIN f THEN "ENOTDIR"
    ELSE IF Parent(p.segs) \notin d THEN "ENOENT"
    ELSE ""

\* an error of the device or of permissions, which no state of the model decides
IoFault == "EIO"

WriteTo(f, segs, content) ==
    [q \in DOMAIN f \cup {segs} |-> IF q = segs THEN content ELSE f[q]]

-----------------------------------------------------------------------------
(* ComponentGenerator.                                                     *)

TS == <<"t", "s">>
JS == <<"j", "s">>

SuffixComponent == <<".", "c", "o", "m", "p", "o", "n", "e", "n", "t", ".">>
SuffixHtml == SuffixComponent \o <<"h", "t", "m", "l">>
SuffixStyle == SuffixComponent \o <<"s", "t", "y", "l", "e", ".", "h", "t", "m", "l">>

NewGenerator(name, lang) ==
    [componentName |-> name, folderName |-> toDashCase(name), language |-> lang]

generateTsContent(g) == [tpl |-> "ts", name |-> g.componentName]
generateJsContent(g) == [tpl |-> "js", name |-> g.componentName]
generateHtmlContent(g) == [tpl |-> "<div>{{title}}</div>", name |-> <<>>]
generateStyleContent(g) == [tpl |-> "<style></style>", name |-> <<>>]

\* the template chosen without looking at the language
GeneratedFilesAlwaysTs(g) ==
    << [name |-> g.componentName \o SuffixComponent \o g.language,
        content |-> generateTsContent(g)],
       [name |-> g.componentName \o SuffixHtml,
        content |-> generateHtmlContent(g)],
       [name |-> g.componentName \o SuffixStyle,
        content |-> generateStyleContent(g)] >>

\* the template and the style written in the other order
GeneratedFilesSwapped(g) ==
    << [name |-> g.componentName \o SuffixComponent \o g.language,
        content |-> IF g.language = TS THEN generateTsContent(g)
                    ELSE generateJsContent(g)],
       [name |-> g.componentName \o SuffixStyle,
        content |-> generateStyleContent(g)],
       [name |-> g.componentName \o SuffixHtml,
        content |-> generateHtmlContent(g)] >>

\* the files array of create
GeneratedFiles(g) ==
    << [name |-> g.componentName \o SuffixComponent \o g.language,
        content |-> IF g.language = TS THEN generateTsContent(g)
                    ELSE generateJsContent(g)],
       [name |-> g.componentName \o SuffixHtml,
        content |-> generateHtmlContent(g)],
       [name |-> g.componentName \o SuffixStyle,
        content |-> generateStyleContent(g)] >>

-----------------------------------------------------------------------------
(* Console output.                                                         *)

Msg(stream, kind, text, path) ==
    [stream |-> stream, kind |-> kind, text |-> text, path |-> path, code |-> ""]

ErrMsg(kind, code) ==
    [stream |-> "stderr", kind |-> kind, text |-> <<>>, path |-> <<>>, code |-> code]

Rule == Msg("stdout", "rule", <<>>, <<>>)

-----------------------------------------------------------------------------
(* parseArgs.                                                              *)

FlagN == <<"-", "n">>
FlagName == <<"-", "-", "n", "a", "m", "e">>
FlagL == <<"-", "l">>
FlagLanguage == <<"-", "-", "l", "a", "n", "g", "u", "a", "g", "e">>

RECURSIVE ParseFrom(_, _, _, _)
\* the loop of parseArgs from index i on, with the locals componentName and language
ParseFrom(args, i, name, lang) ==
    IF i > Len(args)
    THEN [exit |-> FALSE, componentName |-> name, language |-> lang]
    ELSE LET a == args[i]
             next == IF i + 1 <= Len(args) THEN Some(args[i + 1]) ELSE Undefined
             name2 == IF a = FlagN \/ a = FlagName THEN next ELSE name
         IN  IF a = FlagL \/ a = FlagLanguage
             THEN LET l == IF IsDefined(next) THEN toLowerCase(ValueOf(next))
                           ELSE <<>>
                  IN  IF IsDefined(next) /\ (l = JS \/ l = TS)
                      THEN ParseFrom(args, i + 1, name2, l)
                      ELSE [exit |-> TRUE, componentName |-> name2, language |-> lang]
             ELSE ParseFrom(args, i + 1, name2, lang)

RECURSIVE ParseFromLenient(_, _, _, _)
\* an unknown language falls back to the default instead of ending the process
ParseFromLenient(args, i, name, lang) ==
    IF i > Len(args)
    THEN [exit |-> FALSE, componentName |-> name, language |-> lang]
    ELSE LET a == args[i]
             next == IF i + 1 <= Len(args) THEN Some(args[i + 1]) ELSE Undefined
             name2 == IF a = FlagN \/ a = FlagName THEN next ELSE name
             l == IF IsDefined(next) THEN toLowerCase(ValueOf(next)) ELSE <<>>
         IN  IF (a = FlagL \/ a = FlagLanguage) /\ (l = JS \/ l = TS)
             THEN ParseFromLenient(args, i + 1, name2, l)
             ELSE ParseFromLenient(args, i + 1, name2, lang)

parseArgsLenient(args) == ParseFromLenient(args, 1, Undefined, TS)

parseArgs(args) == ParseFrom(args, 1, Undefined, TS)

-----------------------------------------------------------------------------
(* The disk found at start.                                                *)

BaseDirs == { <<>>, << <<"p">> >>, Cwd.segs }

\* the entry a-b of the working directory
EntryAB == Cwd.segs \o << <<"a", "-", "b">> >>

StaleHtml == EntryAB \o << <<"a", "B">> \o SuffixHtml >>

Stale == [tpl |-> "stale", name |-> <<>>]

NoFiles == [q \in {} |-> Stale]

\* nothing in the working directory; a-b a directory holding a file; a-b a
\* regular file
InitialDisks ==
    { [dirs |-> BaseDirs, files |-> NoFiles],
      [dirs |-> BaseDirs \cup {EntryAB}, files |-> [q \in {StaleHtml} |-> Stale]],
      [dirs |-> BaseDirs, files |-> [q \in {EntryAB} |-> Stale]] }

-----------------------------------------------------------------------------
(* Argument vectors.                                                       *)

RECURSIVE SeqsUpTo(_, _)
\* the sequences over S of length at most n
SeqsUpTo(S, n) ==
    IF n = 0 THEN { <<>> }
    ELSE LET shorter == SeqsUpTo(S, n - 1)
         IN  shorter \cup { Append(t, x) : t \in {u \in shorter : Len(u) = n - 1}, x \in S }

\* names given on the command line in Spec
NamePool == { <<"a", "B">>, <<"a", " ", "b">>, <<"-">> }

\* language values given on the command line
LangPool == { TS, <<"J", "S">>, <<"x", "x">> }

Tokens == {FlagN, FlagName, FlagL, FlagLanguage} \cup LangPool \cup NamePool

\* the disks found at start in Spec: nothing there, or a-b a directory
SpecDisks == { d \in InitialDisks : EntryAB \notin DOMAIN d.files }

\* the argument vectors of FairSpec: the short ones, and a name and a language
\* given by either flag in either order
FairArgvs ==
    SeqsUpTo(Tokens, MaxFairArgs)
    \cup { <<nf, n, lf, l>> : nf \in {FlagN, FlagName}, n \in NamePool,
                              lf \in {FlagL, FlagLanguage}, l \in LangPool }
    \cup { <<lf, l, nf, n>> : nf \in {FlagN, FlagName}, n \in NamePool,
                              lf \in {FlagL, FlagLanguage}, l \in LangPool }

\* the characters of the names drawn in SpecNames: letters, a digit and
\* separators, or letters and the characters of paths
NameAlphabet == {"a", "B", "1", "-", "_"}
PathAlphabet == {"a", "B", ".", "/"}

NameArgvs ==
    LET names == (SeqsUpTo(NameAlphabet, MaxLen) \cup SeqsUpTo(PathAlphabet, MaxLen))
                 \ { <<>> }
    IN  { <<FlagN, n>> : n \in names }
        \cup { <<FlagLanguage, <<"J", "S">>, FlagName, n>> : n \in names }
        \cup { <<FlagN>>, <<FlagL, <<"x", "x">>, FlagN, <<"a">> >> }

-----------------------------------------------------------------------------
(* The process.                                                            *)

InitWith(args, disk) ==
    /\ argv = args
    /\ dirs = disk.dirs
    /\ files = disk.files
    /\ dirs0 = disk.dirs
    /\ files0 = disk.files
    /\ pc = "parseArgs"
    /\ componentName = Undefined
    /\ language = <<>>
    /\ validation = Undefined
    /\ generator = Undefined
    /\ dir = Undefined
    /\ fileIdx = 0
    /\ out = <<>>
    /\ exitCode = Undefined
    /\ created = <<>>

Init == \E args \in SeqsUpTo(Tokens, MaxArgs), disk \in SpecDisks :
            InitWith(args, disk)

InitFair == \E args \in FairArgvs, disk \in SpecDisks : InitWith(args, disk)

InitNames == \E args \in NameArgvs, disk \in InitialDisks : InitWith(args, disk)

\* process.exit(code) after the messages msgs
Exit(code, msgs) ==
    /\ pc' = "exited"
    /\ exitCode' = Some(code)
    /\ out' = out \o msgs

\* main, line 170: parseArgs and its process.exit(1)
ParseArgs ==
    /\ pc = "parseArgs"
    /\ LET r == parseArgs(argv)
       IN  IF r.exit
           THEN /\ Exit(1, <<ErrMsg("invalidLanguage", "")>>)
                /\ UNCHANGED <<componentName, language>>
           ELSE /\ componentName' = r.componentName
                /\ language' = r.language
                /\ pc' = "checkName"
                /\ UNCHANGED <<out, exitCode>>
    /\ UNCHANGED <<argv, dirs, files, validation, generator, dir, fileIdx,
                   created, dirs0, files0>>

\* main, lines 171-182
CheckName ==
    /\ pc = "checkName"
    /\ IF ~IsDefined(componentName) \/ ~Truthy(ValueOf(componentName))
       THEN Exit(1, <<ErrMsg("nameRequired", ""),
                      Msg("stdout", "example", <<>>, <<>>)>>)
       ELSE /\ out' = out \o <<Msg("stdout", "starting", <<>>, <<>>), Rule,
                               Msg("stdout", "requested", ValueOf(componentName), <<>>),
                               Msg("stdout", "language", language, <<>>), Rule>>
            /\ pc' = "validate"
            /\ UNCHANGED exitCode
    /\ UNCHANGED <<argv, dirs, files, componentName, language, validation,
                   generator, dir, fileIdx, created, dirs0, files0>>

\* main, lines 184-201, up to the call of create
Validate ==
    /\ pc = "validate"
    /\ LET v == validate(ValueOf(componentName))
       IN  /\ validation' = Some(v)
           /\ IF ~v.valid
              THEN IF IsDefined(v.suggestion) /\ Truthy(ValueOf(v.suggestion))
                   THEN /\ out' = out \o
                               <<Msg("stderr", "warning", <<>>, <<>>),
                                 Msg("stdout", "converting", ValueOf(v.suggestion), <<>>)>>
                        /\ generator' = Some(NewGenerator(ValueOf(v.suggestion), language))
                        /\ pc' = "create"
                        /\ UNCHANGED exitCode
                   ELSE /\ Exit(1, <<Msg("stderr", "warning", <<>>, <<>>)>>)
                        /\ UNCHANGED generator
              ELSE /\ generator' = Some(NewGenerator(ValueOf(componentName), language))
                   /\ pc' = "create"
                   /\ UNCHANGED <<out, exitCode>>
    /\ UNCHANGED <<argv, dirs, files, componentName, language, dir, fileIdx,
                   created, dirs0, files0>>

TargetDir == PathJoin(Cwd, ValueOf(generator).folderName)

\* process.exit() called without a status
CreateExistsExitZero ==
    /\ pc = "create"
    /\ existsSync(dirs, files, PathJoin(Cwd, ValueOf(generator).folderName))
    /\ dir' = Some(PathJoin(Cwd, ValueOf(generator).folderName))
    /\ pc' = "exited"
    /\ exitCode' = Some(0)
    /\ out' = Append(out, Msg("stderr", "exists", ValueOf(generator).folderName, <<>>))
    /\ UNCHANGED <<argv, dirs, files, componentName, language, validation,
                   generator, fileIdx, created, dirs0, files0>>

\* create, lines 106-111: the directory exists
CreateExists ==
    /\ pc = "create"
    /\ existsSync(dirs, files, TargetDir)
    /\ dir' = Some(TargetDir)
    /\ Exit(1, <<Msg("stderr", "exists", ValueOf(generator).folderName, <<>>)>>)
    /\ UNCHANGED <<argv, dirs, files, componentName, language, validation,
                   generator, fileIdx, created, dirs0, files0>>

\* create, lines 106-113 and the catch of 137-140: mkdirSync
CreateMkdir ==
    /\ pc = "create"
    /\ ~existsSync(dirs, files, TargetDir)
    /\ dir' = Some(TargetDir)
    /\ \E fault \in {"", IoFault} :
         LET e == IF fault # "" THEN fault ELSE mkdirError(dirs, files, TargetDir)
         IN  IF e # ""
             THEN /\ Exit(1, <<ErrMsg("error", e)>>)
                  /\ UNCHANGED <<dirs, created>>
             ELSE /\ dirs' = dirs \cup {TargetDir.segs}
                  /\ created' = Append(created, TargetDir.segs)
                  /\ pc' = "logDir"
                  /\ UNCHANGED <<out, exitCode>>
    /\ UNCHANGED <<argv, files, componentName, language, validation,
                   generator, fileIdx, dirs0, files0>>

\* create, lines 114-132
LogDir ==
    /\ pc = "logDir"
    /\ out' = out \o <<Msg("stdout", "createdDir", ValueOf(generator).folderName, <<>>),
                       Msg("stdout", "generating", <<>>, <<>>)>>
    /\ fileIdx' = 1
    /\ pc' = "write"
    /\ UNCHANGED <<argv, dirs, files, componentName, language, validation,
                   generator, dir, exitCode, created, dirs0, files0>>

CurrentFile == GeneratedFiles(ValueOf(generator))[fileIdx]

CurrentPath == PathJoin(ValueOf(dir), CurrentFile.name)

\* create, line 134 and the catch of 137-140: writeFileSync
WriteFile ==
    /\ pc = "write"
    /\ \E fault \in {"", IoFault} :
         LET e == IF fault # "" THEN fault ELSE writeError(dirs, files, CurrentPath)
         IN  IF e # ""
             THEN /\ Exit(1, <<ErrMsg("error", e)>>)
                  /\ UNCHANGED <<files, created>>
             ELSE /\ files' = WriteTo(files, CurrentPath.segs, CurrentFile.content)
                  /\ created' = Append(created, CurrentPath.segs)
                  /\ pc' = "logFile"
                  /\ UNCHANGED <<out, exitCode>>
    /\ UNCHANGED <<argv, dirs, componentName, language, validation,
                   generator, dir, fileIdx, dirs0, files0>>

\* create, line 135 and the loop's next turn
LogFile ==
    /\ pc = "logFile"
    /\ out' = Append(out, Msg("stdout", "createdFile", CurrentFile.name, <<>>))
    /\ fileIdx' = fileIdx + 1
    /\ pc' = IF fileIdx = Len(GeneratedFiles(ValueOf(generator))) THEN "report" ELSE "write"
    /\ UNCHANGED <<argv, dirs, files, componentName, language, validation,
                   generator, dir, exitCode, created, dirs0, files0>>

\* the folder name of the final report, line 206 and 208
ReportedFolder == toDashCase(ValueOf(componentName))

\* main, lines 203-209, and the end of the process
Report ==
    /\ pc = "report"
    /\ Exit(0, <<Msg("stdout", "complete", <<>>, <<>>), Rule,
                 Msg("stdout", "location", <<>>, PathJoin(Cwd, ReportedFolder).segs),
                 Msg("stdout", "component", ReportedFolder, <<>>), Rule>>)
    /\ UNCHANGED <<argv, dirs, files, componentName, language, validation,
                   generator, dir, fileIdx, created, dirs0, files0>>

Next ==
    \/ ParseArgs
    \/ CheckName
    \/ Validate
    \/ CreateExists
    \/ CreateMkdir
    \/ LogDir
    \/ WriteFile
    \/ LogFile
    \/ Report

Spec == Init /\ [][Next]_vars

SpecNames == InitNames /\ [][Next]_vars

\* the process runs on until it exits: no step of it waits on anything
FairSpec == InitFair /\ [][Next]_vars /\ WF_vars(Next)

-----------------------------------------------------------------------------
(* Vocabulary of the properties.                                           *)

Exited == pc = "exited"

Kinds == {out[i].kind : i \in DOMAIN out}

DiskUnchanged == dirs = dirs0 /\ files = files0

\* the name given to the run, once parseArgs has returned it
GivenName == ValueOf(componentName)

HasName == IsDefined(componentName) /\ Truthy(GivenName)

\* the identifier the generator works with
Identifier == ValueOf(generator).componentName

\* the entry of the working directory that is named after the string folder
EntryNamed(folder) == PathJoin(Cwd, folder).segs

\* some -l or --language is followed by something other than ts or js
BadLanguage ==
    \E i \in DOMAIN argv :
        /\ argv[i] \in {FlagL, FlagLanguage}
        /\ \/ i = Len(argv)
           \/ toLowerCase(argv[i + 1]) \notin {TS, JS}

EndsWith(s, suffix) ==
    /\ Len(suffix) <= Len(s)
    /\ SubSeq(s, Len(s) - Len(suffix) + 1, Len(s)) = suffix

-----------------------------------------------------------------------------
(* C1: when the directory toDashCase(identifier) is already in the working *)
(* directory as create runs, nothing on disk changes at any time, and once *)
(* create has acted the process has exited with status 1, its last message *)
(* being the error that names that directory.                              *)

C1_DirThere ==
    /\ IsDefined(generator)
    /\ EntryNamed(toDashCase(Identifier)) \in dirs0

\* C1: an existing target directory ends the run with status 1, the disk as
\* it was and the error naming the directory last on the console.
C1_ExistingDirectoryAborts ==
    C1_DirThere =>
        /\ DiskUnchanged
        /\ created = <<>>
        /\ pc \in {"create", "exited"}
        /\ Exited =>
             /\ exitCode = Some(1)
             /\ Last(out) = Msg("stderr", "exists", toDashCase(Identifier), <<>>)

\* a run that found a-b holding a file and has ended
C1_Witness ==
    /\ C1_DirThere
    /\ Exited
    /\ StaleHtml \in DOMAIN files0

-----------------------------------------------------------------------------
(* C2: when some -l or --language of the argument vector is followed by a  *)
(* value other than ts or js in any case, or by nothing, the process never *)
(* gets past parseArgs: it exits with status 1, no directory made and no   *)
(* file written, wherever the flag stands and whatever the name is.        *)

\* C2: a bad language value ends the run in parseArgs, the disk untouched.
C2_BadLanguageExitsFirst ==
    BadLanguage =>
        /\ pc \in {"parseArgs", "exited"}
        /\ Exited => exitCode = Some(1)
        /\ DiskUnchanged
        /\ created = <<>>
        /\ Kinds \subseteq {"invalidLanguage"}

\* an ended run whose bad language follows a good name
C2_Witness ==
    /\ Exited
    /\ BadLanguage
    /\ Len(argv) = 4
    /\ argv[1] = FlagN
    /\ IsCamelCase(argv[2])
    /\ argv[3] \in {FlagL, FlagLanguage}

-----------------------------------------------------------------------------
(* C3: a run given a camelCase name n and a language l in {ts, js}.        *)

C3_Target == Cwd.segs \o <<toDashCase(GivenName)>>

C3_Logic == C3_Target \o <<GivenName \o SuffixComponent \o language>>
C3_Html == C3_Target \o <<GivenName \o SuffixHtml>>
C3_Style == C3_Target \o <<GivenName \o SuffixStyle>>

C3_Result ==
    /\ exitCode = Some(0)
    /\ "warning" \notin Kinds
    /\ Identifier = GivenName
    /\ language \in {TS, JS}
    /\ dirs = dirs0 \cup {C3_Target}
    /\ C3_Target \notin dirs0
    /\ DOMAIN files = DOMAIN files0 \cup {C3_Logic, C3_Html, C3_Style}
    /\ Cardinality({C3_Logic, C3_Html, C3_Style} \ DOMAIN files0) = 3
    /\ \A q \in DOMAIN files0 : files[q] = files0[q]
    /\ files[C3_Logic] = [tpl |-> IF language = TS THEN "ts" ELSE "js",
                          name |-> GivenName]
    /\ files[C3_Html] = [tpl |-> "<div>{{title}}</div>", name |-> <<>>]
    /\ files[C3_Style] = [tpl |-> "<style></style>", name |-> <<>>]

C3_ValidRunEnded ==
    /\ Exited
    /\ HasName
    /\ IsCamelCase(GivenName)
    /\ "error" \notin Kinds

\* C3 as stated: whenever no directory is at the target and no operation
\* throws, the run makes the directory and its three files and nothing else.
C3_AsStated ==
    (C3_ValidRunEnded /\ C3_Target \notin dirs0) => C3_Result

\* C3 as amended: the same, whenever nothing at all, neither a directory nor
\* a file, is at the target and no operation throws.
C3_ValidRunCreatesExactlyThree ==
    (C3_ValidRunEnded /\ C3_Target \notin dirs0 /\ C3_Target \notin DOMAIN files0)
        => C3_Result

\* a JavaScript run of a camelCase name that made its files
C3_Witness ==
    /\ C3_ValidRunEnded
    /\ C3_Target \notin dirs0
    /\ C3_Target \notin DOMAIN files0
    /\ language = JS
    /\ Len(GivenName) >= 2
    /\ Len(created) = 4

-----------------------------------------------------------------------------
(* C4: everything a run creates lies under the working directory: the      *)
(* directory is an entry of the working directory and the files are        *)
(* entries of that directory.                                              *)

\* C4: the created directory is an entry of the working directory and each
\* created file an entry of the created directory.
C4_CreatedUnderCwd ==
    \A i \in DOMAIN created :
        /\ IsPrefix(Cwd.segs, created[i])
        /\ i = 1 => Parent(created[i]) = Cwd.segs
        /\ i > 1 => Parent(created[i]) = created[1]

-----------------------------------------------------------------------------
(* C5: validate of a non-empty name that fails the pattern.                *)

C5_InvalidNameValidated ==
    /\ IsDefined(validation)
    /\ ~IsCamelCase(GivenName)

OnlySeparators(s) == \A i \in DOMAIN s : IsSep(s[i])

C5_Proceeds ==
    /\ "warning" \in Kinds
    /\ IsDefined(generator)
    /\ Identifier = ValueOf(ValueOf(validation).suggestion)

\* C5 as stated: the result is invalid, carries the camelCase message and a
\* non-empty suggestion, and the run warns and goes on with the suggestion.
C5_AsStated ==
    C5_InvalidNameValidated =>
        /\ ~ValueOf(validation).valid
        /\ ValueOf(validation).message = "Component name must be camelCase"
        /\ IsDefined(ValueOf(validation).suggestion)
        /\ Truthy(ValueOf(ValueOf(validation).suggestion))
        /\ C5_Proceeds

\* C5 as amended: the result is invalid and carries the camelCase message and
\* a suggestion; the suggestion is empty exactly when the name is made of
\* separators only, and then the run warns and exits with status 1 having
\* created nothing; otherwise the run warns and goes on with the suggestion.
C5_InvalidNameSuggestion ==
    C5_InvalidNameValidated =>
        /\ ~ValueOf(validation).valid
        /\ ValueOf(validation).message = "Component name must be camelCase"
        /\ IsDefined(ValueOf(validation).suggestion)
        /\ Truthy(ValueOf(ValueOf(validation).suggestion)) <=> ~OnlySeparators(GivenName)
        /\ IF OnlySeparators(GivenName)
           THEN /\ Exited
                /\ exitCode = Some(1)
                /\ Last(out).kind = "warning"
                /\ ~IsDefined(generator)
                /\ DiskUnchanged
           ELSE C5_Proceeds

\* a run given a name of two separators has ended
C5_Witness ==
    /\ C5_InvalidNameValidated
    /\ OnlySeparators(GivenName)
    /\ Len(GivenName) = 2
    /\ Exited

-----------------------------------------------------------------------------
(* C6: the identifier the generator is constructed with is camelCase.      *)

\* C6: whenever a generator has been constructed its identifier matches
\* ^[a-z][a-zA-Z0-9]*$.
C6_IdentifierIsCamelCase ==
    IsDefined(generator) => IsCamelCase(Identifier)

-----------------------------------------------------------------------------
(* C7: every run ends; it ends with status 0 exactly when it created the   *)
(* directory and the three files, and with status 1 when the name is       *)
(* missing, the language is bad, the target exists or an operation threw;  *)
(* Generation Complete is printed on the status 0 path only.               *)

C7_ExitStatus ==
    /\ ~Exited => exitCode = Undefined /\ "complete" \notin Kinds
    /\ Exited =>
         /\ exitCode \in {Some(0), Some(1)}
         /\ exitCode = Some(0) <=> Len(created) = 4
         /\ exitCode = Some(0) <=> "complete" \in Kinds
         /\ ~HasName => exitCode = Some(1)
         /\ BadLanguage => exitCode = Some(1)
         /\ (IsDefined(generator)
               /\ existsSync(dirs0, files0, PathJoin(Cwd, toDashCase(Identifier))))
              => exitCode = Some(1)
         /\ "error" \in Kinds => exitCode = Some(1)

\* C7: the run exits at last, and the exit status and the report are as said.
C7_TerminatesWithStatus == <>Exited /\ []C7_ExitStatus

\* a run ended by the throw of its last write
C7_Witness ==
    /\ Exited
    /\ exitCode = Some(1)
    /\ "error" \in Kinds
    /\ Len(created) = 3

-----------------------------------------------------------------------------
(* C8: the order of the artifacts and of their messages, and a failure.    *)

StatusMessages ==
    SelectSeq(out, LAMBDA m : m.kind \in {"createdDir", "createdFile"})

\* the files this run has written, in order
CreatedFiles == IF created = <<>> THEN <<>> ELSE Tail(created)

C8_Order ==
    /\ Len(created) <= 4
    /\ created # <<>> => created[1] = ValueOf(dir).segs /\ created[1] \in dirs
    /\ Len(created) >= 2 =>
         /\ EndsWith(Last(created[2]), SuffixComponent \o language)
         /\ files[created[2]].tpl \in {"ts", "js"}
    /\ Len(created) >= 3 =>
         /\ EndsWith(Last(created[3]), SuffixHtml)
         /\ files[created[3]].tpl = "<div>{{title}}</div>"
    /\ Len(created) >= 4 =>
         /\ EndsWith(Last(created[4]), SuffixStyle)
         /\ files[created[4]].tpl = "<style></style>"

C8_OneMessageEach ==
    /\ Len(StatusMessages) =
         IF pc \in {"logDir", "logFile"} THEN Len(created) - 1 ELSE Len(created)
    /\ \A i \in DOMAIN StatusMessages :
         /\ StatusMessages[i].kind = IF i = 1 THEN "createdDir" ELSE "createdFile"
         /\ i = 1 => EntryNamed(StatusMessages[i].text) = created[1]
         /\ i > 1 => PathJoin(ValueOf(dir), StatusMessages[i].text).segs = created[i]

C8_DiskIsWhatWasCreated ==
    /\ dirs = dirs0 \cup (IF created = <<>> THEN {} ELSE {created[1]})
    /\ DOMAIN files = DOMAIN files0 \cup Range(CreatedFiles)
    /\ \A q \in DOMAIN files0 \ Range(CreatedFiles) : files[q] = files0[q]

C8_Failure ==
    "error" \in Kinds =>
        /\ Exited
        /\ exitCode = Some(1)
        /\ Last(out).kind = "error"
        /\ Last(out).code # ""
        /\ Cardinality({i \in DOMAIN out : out[i].kind = "error"}) = 1
        /\ Len(created) < 4

\* C8: directory, logic file, template, style, in that order, one status
\* message after each and before the next; after a throw the error is
\* printed, the status is 1 and the disk holds what was created before it.
C8_OrderedAndNoCleanup ==
    /\ C8_Order
    /\ C8_OneMessageEach
    /\ C8_DiskIsWhatWasCreated
    /\ C8_Failure

\* the write of the template threw after the directory and the logic file
C8_Witness ==
    /\ "error" \in Kinds
    /\ Len(created) = 2
    /\ Len(StatusMessages) = 2
    /\ created[2] \in DOMAIN files

-----------------------------------------------------------------------------
(* C9: convertToCamelCase on letters, digits and separators.               *)

\* made of ASCII letters, digits and separators, the first character that is
\* no separator being a letter
C9_Covered(s) ==
    /\ \A i \in DOMAIN s : IsAlnum(s[i]) \/ IsSep(s[i])
    /\ \E i \in DOMAIN s :
         /\ IsLower(s[i]) \/ IsUpper(s[i])
         /\ \A j \in 1..(i - 1) : IsSep(s[j])

\* the positions of s that hold no separator
C9_Kept(s) == SelectSeq([i \in DOMAIN s |-> i], LAMBDA i : ~IsSep(s[i]))

\* s without its separators, each character that follows one in upper case
C9_Joined(s) ==
    [k \in DOMAIN C9_Kept(s) |->
        LET i == C9_Kept(s)[k]
        IN  IF i > 1 /\ IsSep(s[i - 1]) THEN toUpperCaseChar(s[i]) ELSE s[i]]

\* and its leading capital, if any, in lower case
C9_Expected(s) ==
    [k \in DOMAIN C9_Joined(s) |->
        IF k = 1 THEN toLowerCaseChar(C9_Joined(s)[k]) ELSE C9_Joined(s)[k]]

UserProfile == <<"u", "s", "e", "r", "P", "r", "o", "f", "i", "l", "e">>

C9_Examples ==
    /\ convertToCamelCase(<<"u", "s", "e", "r", "-", "p", "r", "o", "f", "i", "l", "e">>)
         = UserProfile
    /\ convertToCamelCase(<<"U", "s", "e", "r", "P", "r", "o", "f", "i", "l", "e">>)
         = UserProfile
    /\ convertToCamelCase(<<"u", "s", "e", "r", "_", "p", "r", "o", "f", "i", "l", "e">>)
         = UserProfile
    /\ convertToCamelCase(<<"u", "s", "e", "r", " ", " ", "p", "r", "o", "f", "i", "l", "e", "-">>)
         = UserProfile

\* C9: on a covered name convertToCamelCase returns the expected string, which
\* matches the pattern, and the README's examples give userProfile.
C9_ConvertToCamelCase ==
    /\ C9_Examples
    /\ (HasName /\ C9_Covered(GivenName)) =>
         /\ convertToCamelCase(GivenName) = C9_Expected(GivenName)
         /\ IsCamelCase(convertToCamelCase(GivenName))
         /\ (IsDefined(validation) /\ ~ValueOf(validation).valid) =>
              /\ ValueOf(validation).suggestion = Some(C9_Expected(GivenName))
              /\ Identifier = C9_Expected(GivenName)

\* a name with a leading capital, separators inside and at its end was
\* converted and generated under
C9_Witness ==
    /\ HasName
    /\ GivenName = <<"B", "_", "a", "-">>
    /\ IsDefined(generator)
    /\ Identifier = <<"b", "A">>

-----------------------------------------------------------------------------
(* C10: the folder and the location of the final report are those of the   *)
(* directory the run created.                                              *)

\* C10: after a successful run the reported location and folder are the
\* created directory and the folder name the generator used.
C10_ReportNamesCreatedDir ==
    exitCode = Some(0) =>
        \A i \in DOMAIN out :
            /\ out[i].kind = "location" => out[i].path = created[1]
            /\ out[i].kind = "component" => out[i].text = ValueOf(generator).folderName

====
